---- MODULE Spec2Model ----
(***************************************************************************)
(* The chess rules engine (chess-logic: board, move generation, attack     *)
(* detection, move execution, terminal detection) and the caller that      *)
(* threads the returned board and game state forward, one move at a time.  *)
(*                                                                         *)
(* Rows and columns are 0..7; row 0 is rank 8, row 7 is rank 1, column 0   *)
(* is file a.  White advances toward row 0, black toward row 7.            *)
(***************************************************************************)
EXTENDS Integers, Sequences, FiniteSets, TLC

\* The state of the board component.  selectedPiece and promotionPosition
\* are a position or nullPos, possibleMoves is the highlighted list.  The
\* status line (gameStatus) is a text derived from the others for display
\* and is left out.
VARIABLES board, gameState, currentPlayer, moveHistory, selectedPiece, possibleMoves, showPromotionModal, promotionPosition

vars == <<board, gameState, currentPlayer, moveHistory, selectedPiece, possibleMoves, showPromotionModal, promotionPosition>>

(***************************************************************************)
(* Types and primitives                                                    *)
(***************************************************************************)

\* "no piece" (a null cell, a null capturedPiece).  hasMoved is optional in
\* the source and only ever read as !piece.hasMoved, so unset reads as FALSE.
null == [type |-> "none", color |-> "none", hasMoved |-> FALSE]

\* "no position" (a null enPassantTarget, findKing finding no king).
nullPos == [row |-> -1, col |-> -1]

Pos(r, c) == [row |-> r, col |-> c]

Piece(t, c) == [type |-> t, color |-> c, hasMoved |-> FALSE]

PieceType == {"pawn", "rook", "knight", "bishop", "queen", "king"}

Rows == 0..7

Squares == {Pos(r, c) : r \in Rows, c \in Rows}

Range(s) == {s[i] : i \in DOMAIN s}

opponent(color) == IF color = "white" THEN "black" ELSE "white"

initialBoard ==
  [r \in Rows |-> [c \in Rows |->
     IF r = 1 THEN Piece("pawn", "black")
     ELSE IF r = 6 THEN Piece("pawn", "white")
     ELSE IF r \in {0, 7} THEN
       LET color == IF r = 0 THEN "black" ELSE "white" IN
       IF c \in {0, 7} THEN Piece("rook", color)
       ELSE IF c \in {1, 6} THEN Piece("knight", color)
       ELSE IF c \in {2, 5} THEN Piece("bishop", color)
       ELSE IF c = 3 THEN Piece("queen", color)
       ELSE Piece("king", color)
     ELSE null]]

initialGameState ==
  [whiteCanCastleKingside |-> TRUE,
   whiteCanCastleQueenside |-> TRUE,
   blackCanCastleKingside |-> TRUE,
   blackCanCastleQueenside |-> TRUE,
   enPassantTarget |-> nullPos,
   halfMoveClock |-> 0,
   fullMoveNumber |-> 1]

\* Object identity.  Where a property is about which object a cell holds,
\* the pieces of a board carry an id field; two records with the same id
\* are one object.  Boards without ids are plain values.
\*
\* copyOf taken as the object itself: a copy of the rows only.
copyOfShared(piece) == piece

\* { ...piece }: a new object with the fields of the old one.  A copy of
\* a copy is again new.
copyOf(piece) ==
  IF "id" \in DOMAIN piece THEN [piece EXCEPT !.id = @ + 64] ELSE piece

\* A deep copy: new rows, and a new object for every piece.
cloneBoard(b) == [r \in Rows |-> [c \in Rows |-> copyOf(b[r][c])]]

cleanBoard(b) == [r \in Rows |-> [c \in Rows |-> copyOf(b[r][c])]]

isValidPosition(position) ==
  /\ position.row >= 0
  /\ position.row < 8
  /\ position.col >= 0
  /\ position.col < 8

\* board[row][col] for a valid row: a column outside the row reads undefined,
\* which the source treats like an empty cell.
at(b, position) ==
  IF position.col \in Rows THEN b[position.row][position.col] ELSE null

(***************************************************************************)
(* Attack detection                                                        *)
(***************************************************************************)

knightOffsets ==
  << <<-2, -1>>, <<-2, 1>>, <<-1, -2>>, <<-1, 2>>,
     <<1, -2>>, <<1, 2>>, <<2, -1>>, <<2, 1>> >>

kingOffsets ==
  << <<-1, -1>>, <<-1, 0>>, <<-1, 1>>, <<0, -1>>,
     <<0, 1>>, <<1, -1>>, <<1, 0>>, <<1, 1>> >>

rookDirections == << <<-1, 0>>, <<1, 0>>, <<0, -1>>, <<0, 1>> >>

bishopDirections == << <<-1, -1>>, <<-1, 1>>, <<1, -1>>, <<1, 1>> >>

\* The squares isPositionUnderAttack looks at for an attacking pawn.
pawnDirections(position, color) ==
  IF color = "white"
  THEN << Pos(position.row + 1, position.col - 1),
          Pos(position.row + 1, position.col + 1) >>
  ELSE << Pos(position.row - 1, position.col - 1),
          Pos(position.row - 1, position.col + 1) >>

\* The first occupied square met walking from (r, c) in direction (dr, dc),
\* (r, c) included; nullPos when the walk leaves the board.
RECURSIVE firstOccupied(_, _, _, _, _)
firstOccupied(b, r, c, dr, dc) ==
  IF ~isValidPosition(Pos(r, c)) THEN nullPos
  ELSE IF b[r][c] # null THEN Pos(r, c)
  ELSE firstOccupied(b, r + dr, c + dc, dr, dc)

\* isPositionUnderAttack: the test for an attacking pawn.
attackedByPawn(b, position, color, gs) ==
  \E i \in 1..2 :
    LET dir == pawnDirections(position, color)[i] IN
    /\ isValidPosition(dir)
    /\ b[dir.row][dir.col].type = "pawn"
    /\ b[dir.row][dir.col].color = opponent(color)
    /\ IF /\ gs.enPassantTarget # nullPos
          /\ dir.row = gs.enPassantTarget.row
          /\ dir.col = gs.enPassantTarget.col
       THEN TRUE
       ELSE TRUE

\* isPositionUnderAttack: the test for an attacking knight.
attackedByKnight(b, position, color) ==
  \E i \in DOMAIN knightOffsets :
    LET move == Pos(position.row + knightOffsets[i][1],
                    position.col + knightOffsets[i][2]) IN
    /\ isValidPosition(move)
    /\ b[move.row][move.col].type = "knight"
    /\ b[move.row][move.col].color = opponent(color)

\* isPositionUnderAttack: the test for an attacking king.
attackedByKing(b, position, color) ==
  \E i \in DOMAIN kingOffsets :
    LET move == Pos(position.row + kingOffsets[i][1],
                    position.col + kingOffsets[i][2]) IN
    /\ isValidPosition(move)
    /\ b[move.row][move.col].type = "king"
    /\ b[move.row][move.col].color = opponent(color)

\* attackedBySlider without the test of the ray against the kind.
attackedBySliderOnAnyRay(b, position, color) ==
  \E i \in DOMAIN kingOffsets :
    LET direction == kingOffsets[i]
        hit == firstOccupied(b, position.row + direction[1],
                             position.col + direction[2],
                             direction[1], direction[2])
    IN
    /\ hit # nullPos
    /\ b[hit.row][hit.col].color = opponent(color)
    /\ b[hit.row][hit.col].type \in {"bishop", "rook", "queen"}

\* isPositionUnderAttack: the test for an attacking queen, rook or bishop;
\* the first piece met on each of the eight rays decides.
attackedBySlider(b, position, color) ==
  \E i \in DOMAIN kingOffsets :
    LET direction == kingOffsets[i]
        hit == firstOccupied(b, position.row + direction[1],
                             position.col + direction[2],
                             direction[1], direction[2])
        isDiagonal == direction[1] # 0 /\ direction[2] # 0
        isStraight == direction[1] = 0 \/ direction[2] = 0
    IN
    /\ hit # nullPos
    /\ b[hit.row][hit.col].color = opponent(color)
    /\ \/ isDiagonal /\ b[hit.row][hit.col].type \in {"bishop", "queen"}
       \/ isStraight /\ b[hit.row][hit.col].type \in {"rook", "queen"}

isPositionUnderAttack(b, position, color, gs) ==
  \/ attackedByPawn(b, position, color, gs)
  \/ attackedByKnight(b, position, color)
  \/ attackedByKing(b, position, color)
  \/ attackedBySlider(b, position, color)

\* The first king of that color in row-major order, or nullPos.
findKing(b, color) ==
  LET kings == {p \in Squares : b[p.row][p.col].type = "king"
                                /\ b[p.row][p.col].color = color}
  IN IF kings = {} THEN nullPos
     ELSE CHOOSE p \in kings :
            \A q \in kings : 8 * p.row + p.col <= 8 * q.row + q.col

\* isKingInCheck reporting check when there is no king.
isKingInCheckWithoutKing(b, color, gs) ==
  LET kingPosition == findKing(b, color) IN
  IF kingPosition = nullPos THEN TRUE
  ELSE isPositionUnderAttack(b, kingPosition, color, gs)

isKingInCheck(b, color, gs) ==
  LET kingPosition == findKing(b, color) IN
  IF kingPosition = nullPos THEN FALSE
  ELSE isPositionUnderAttack(b, kingPosition, color, gs)

(***************************************************************************)
(* Move execution                                                          *)
(***************************************************************************)

Abs(n) == IF n < 0 THEN -n ELSE n

\* updateClocks resetting the half-move clock for pawn moves only.
updateClocksPawnOnly(gs, piece, capturedPiece) ==
  LET clocked ==
        IF piece.type = "pawn"
        THEN [gs EXCEPT !.halfMoveClock = 0]
        ELSE [gs EXCEPT !.halfMoveClock = gs.halfMoveClock + 1]
  IN IF piece.color = "black"
     THEN [clocked EXCEPT !.fullMoveNumber = clocked.fullMoveNumber + 1]
     ELSE clocked

\* movePiece: the half-move clock and the full-move number.
updateClocks(gs, piece, capturedPiece) ==
  LET clocked ==
        IF piece.type = "pawn" \/ capturedPiece # null
        THEN [gs EXCEPT !.halfMoveClock = 0]
        ELSE [gs EXCEPT !.halfMoveClock = gs.halfMoveClock + 1]
  IN IF piece.color = "black"
     THEN [clocked EXCEPT !.fullMoveNumber = clocked.fullMoveNumber + 1]
     ELSE clocked

\* enPassantCapture leaving the passed pawn on the board.
enPassantCaptureNone(newBoard, gs, piece, to) == newBoard

\* enPassantCapture with the capture row taken as white's for both colors.
enPassantCaptureWhiteRow(newBoard, gs, piece, to) ==
  IF /\ gs.enPassantTarget # nullPos
     /\ to.row = gs.enPassantTarget.row
     /\ to.col = gs.enPassantTarget.col
  THEN [newBoard EXCEPT ![to.row + 1][to.col] = null]
  ELSE newBoard

\* movePiece, pawn branch: a pawn landing on the en-passant target removes
\* the piece on the square behind the target.
enPassantCapture(newBoard, gs, piece, to) ==
  IF /\ gs.enPassantTarget # nullPos
     /\ to.row = gs.enPassantTarget.row
     /\ to.col = gs.enPassantTarget.col
  THEN LET captureRow == IF piece.color = "white" THEN to.row + 1
                         ELSE to.row - 1
       IN [newBoard EXCEPT ![captureRow][to.col] = null]
  ELSE newBoard

\* pawnEnPassantTarget with the skipped row taken as white's for both colors.
pawnEnPassantTargetWhiteRow(piece, from, to) ==
  IF Abs(from.row - to.row) = 2
  THEN Pos(from.row - 1, from.col)
  ELSE nullPos

\* pawnEnPassantTarget naming the square the pawn left.
pawnEnPassantTargetOrigin(piece, from, to) ==
  IF Abs(from.row - to.row) = 2 THEN Pos(from.row, from.col) ELSE nullPos

\* movePiece, pawn branch: the en-passant target a pawn move leaves behind.
pawnEnPassantTarget(piece, from, to) ==
  IF Abs(from.row - to.row) = 2
  THEN LET enPassantRow == IF piece.color = "white" THEN from.row - 1
                           ELSE from.row + 1
       IN Pos(enPassantRow, from.col)
  ELSE nullPos

\* promote leaving the pawn a pawn when no choice is supplied.
promoteChosenOnly(piece, to, promotionPiece) ==
  IF /\ promotionPiece # "none"
     /\ \/ piece.color = "white" /\ to.row = 0
        \/ piece.color = "black" /\ to.row = 7
  THEN [piece EXCEPT !.type = promotionPiece]
  ELSE piece

\* promote ignoring the choice.
promoteToQueen(piece, to, promotionPiece) ==
  IF \/ piece.color = "white" /\ to.row = 0
     \/ piece.color = "black" /\ to.row = 7
  THEN [piece EXCEPT !.type = "queen"]
  ELSE piece

\* movePiece, pawn branch: promotion on the farthest rank; promotionPiece
\* "none" is the omitted argument.
promote(piece, to, promotionPiece) ==
  IF \/ piece.color = "white" /\ to.row = 0
     \/ piece.color = "black" /\ to.row = 7
  THEN [piece EXCEPT !.type = IF promotionPiece # "none" THEN promotionPiece
                              ELSE "queen"]
  ELSE piece

\* kingRights clearing the kingside right only.
kingRightsKingsideOnly(gs, piece) ==
  IF piece.color = "white"
  THEN [gs EXCEPT !.whiteCanCastleKingside = FALSE]
  ELSE [gs EXCEPT !.blackCanCastleKingside = FALSE]

\* movePiece, king branch: both castling rights of the mover's color.
kingRights(gs, piece) ==
  IF piece.color = "white"
  THEN [gs EXCEPT !.whiteCanCastleKingside = FALSE,
                  !.whiteCanCastleQueenside = FALSE]
  ELSE [gs EXCEPT !.blackCanCastleKingside = FALSE,
                  !.blackCanCastleQueenside = FALSE]

\* castleRook leaving the rook on its corner as well.
castleRookKeepsCorner(newBoard, from, to) ==
  IF Abs(from.col - to.col) = 2
  THEN IF to.col > from.col
       THEN [newBoard EXCEPT ![from.row][5] = newBoard[from.row][7]]
       ELSE [newBoard EXCEPT ![from.row][3] = newBoard[from.row][0]]
  ELSE newBoard

\* movePiece, king branch: the rook relocation of a two-column king move.
castleRook(newBoard, from, to) ==
  IF Abs(from.col - to.col) = 2
  THEN IF to.col > from.col
       THEN LET moved == [newBoard EXCEPT ![from.row][5] = newBoard[from.row][7]]
            IN [moved EXCEPT ![from.row][7] = null]
       ELSE LET moved == [newBoard EXCEPT ![from.row][3] = newBoard[from.row][0]]
            IN [moved EXCEPT ![from.row][0] = null]
  ELSE newBoard

\* rookRights assigning each right "the rook did not leave that corner".
rookRightsAssigned(gs, piece, from) ==
  IF piece.color = "white"
  THEN [gs EXCEPT
          !.whiteCanCastleQueenside = ~(from.row = 7 /\ from.col = 0),
          !.whiteCanCastleKingside = ~(from.row = 7 /\ from.col = 7)]
  ELSE [gs EXCEPT
          !.blackCanCastleQueenside = ~(from.row = 0 /\ from.col = 0),
          !.blackCanCastleKingside = ~(from.row = 0 /\ from.col = 7)]

\* movePiece, rook branch: a rook leaving a home corner of its color.
rookRights(gs, piece, from) ==
  IF piece.color = "white"
  THEN IF from.row = 7 /\ from.col = 0
       THEN [gs EXCEPT !.whiteCanCastleQueenside = FALSE]
       ELSE IF from.row = 7 /\ from.col = 7
       THEN [gs EXCEPT !.whiteCanCastleKingside = FALSE]
       ELSE gs
  ELSE IF from.row = 0 /\ from.col = 0
       THEN [gs EXCEPT !.blackCanCastleQueenside = FALSE]
       ELSE IF from.row = 0 /\ from.col = 7
       THEN [gs EXCEPT !.blackCanCastleKingside = FALSE]
       ELSE gs

\* captureRights testing the corners of the capturing side.
captureRightsOfCapturer(gs, capturedPiece, to) ==
  IF capturedPiece.color = "black"
  THEN IF to.row = 7 /\ to.col = 0
       THEN [gs EXCEPT !.whiteCanCastleQueenside = FALSE]
       ELSE IF to.row = 7 /\ to.col = 7
       THEN [gs EXCEPT !.whiteCanCastleKingside = FALSE]
       ELSE gs
  ELSE IF to.row = 0 /\ to.col = 0
       THEN [gs EXCEPT !.blackCanCastleQueenside = FALSE]
       ELSE IF to.row = 0 /\ to.col = 7
       THEN [gs EXCEPT !.blackCanCastleKingside = FALSE]
       ELSE gs

\* movePiece, capture branch: a rook captured on a home corner of its color.
captureRights(gs, capturedPiece, to) ==
  IF capturedPiece.color = "white"
  THEN IF to.row = 7 /\ to.col = 0
       THEN [gs EXCEPT !.whiteCanCastleQueenside = FALSE]
       ELSE IF to.row = 7 /\ to.col = 7
       THEN [gs EXCEPT !.whiteCanCastleKingside = FALSE]
       ELSE gs
  ELSE IF to.row = 0 /\ to.col = 0
       THEN [gs EXCEPT !.blackCanCastleQueenside = FALSE]
       ELSE IF to.row = 0 /\ to.col = 7
       THEN [gs EXCEPT !.blackCanCastleKingside = FALSE]
       ELSE gs

\* noPiece counting the call as a move of a piece.
noPieceClocked(newBoard, gs) ==
  [newBoard |-> newBoard,
   newGameState |-> [copyOf(gs) EXCEPT !.halfMoveClock = @ + 1,
                                       !.enPassantTarget = nullPos],
   capturedPiece |-> null]

\* movePiece: what is returned when there is no piece on `from`.
noPiece(newBoard, gs) ==
  [newBoard |-> newBoard, newGameState |-> copyOf(gs), capturedPiece |-> null]

movePiece(b, from, to, gs, promotionPiece) ==
  LET newBoard0 == cloneBoard(b)
      piece0 == newBoard0[from.row][from.col]
  IN
  IF piece0 = null
  THEN noPiece(newBoard0, gs)
  ELSE
    LET capturedPiece == copyOf(newBoard0[to.row][to.col])
        gs1 == updateClocks(copyOf(gs), piece0, capturedPiece)
        isPawn == piece0.type = "pawn"
        newBoard1 == IF isPawn
                     THEN enPassantCapture(newBoard0, gs, piece0, to)
                     ELSE newBoard0
        gs2 == [gs1 EXCEPT !.enPassantTarget =
                  IF isPawn THEN pawnEnPassantTarget(piece0, from, to)
                  ELSE nullPos]
        piece1 == IF isPawn THEN promote(piece0, to, promotionPiece)
                  ELSE piece0
        isKing == piece1.type = "king"
        gs3 == IF isKing THEN kingRights(gs2, piece1) ELSE gs2
        newBoard2 == IF isKing THEN castleRook(newBoard1, from, to)
                     ELSE newBoard1
        gs4 == IF piece1.type = "rook" THEN rookRights(gs3, piece1, from)
               ELSE gs3
        gs5 == IF capturedPiece # null /\ capturedPiece.type = "rook"
               THEN captureRights(gs4, capturedPiece, to)
               ELSE gs4
        piece2 == [piece1 EXCEPT !.hasMoved = TRUE]
        newBoard3 == [newBoard2 EXCEPT ![to.row][to.col] = piece2]
        newBoard4 == [newBoard3 EXCEPT ![from.row][from.col] = null]
    IN [newBoard |-> newBoard4, newGameState |-> gs5,
        capturedPiece |-> capturedPiece]

(***************************************************************************)
(* Pseudo-legal move generators (sequences, in the order the code pushes)  *)
(***************************************************************************)

\* getPawnMoves: the row step of a pawn of that color.
pawnDirection(color) == IF color = "white" THEN -1 ELSE 1

\* getPawnMoves: the two diagonal squares a pawn on `position` captures on.
capturePositions(position, color) ==
  << Pos(position.row + pawnDirection(color), position.col - 1),
     Pos(position.row + pawnDirection(color), position.col + 1) >>

\* getPawnMoves offering the two-square advance from any row.
getPawnMovesAnyRow(b, position, gs) ==
  LET row == position.row
      col == position.col
      piece == b[row][col]
      direction == pawnDirection(piece.color)
      oneForward == Pos(row + direction, col)
      twoForward == Pos(row + 2 * direction, col)
      forward ==
        IF isValidPosition(oneForward) /\ b[oneForward.row][oneForward.col] = null
        THEN <<oneForward>> \o
             (IF /\ isValidPosition(twoForward)
                 /\ b[twoForward.row][twoForward.col] = null
              THEN <<twoForward>> ELSE <<>>)
        ELSE <<>>
      canCapture(capturePos) ==
        /\ isValidPosition(capturePos)
        /\ LET targetPiece == b[capturePos.row][capturePos.col] IN
           \/ targetPiece # null /\ targetPiece.color # piece.color
           \/ /\ targetPiece = null
              /\ gs.enPassantTarget # nullPos
              /\ capturePos.row = gs.enPassantTarget.row
              /\ capturePos.col = gs.enPassantTarget.col
  IN IF piece = null \/ piece.type # "pawn" THEN <<>>
     ELSE forward \o SelectSeq(capturePositions(position, piece.color), canCapture)

getPawnMoves(b, position, gs) ==
  LET row == position.row
      col == position.col
      piece == b[row][col]
      direction == pawnDirection(piece.color)
      startingRow == IF piece.color = "white" THEN 6 ELSE 1
      oneForward == Pos(row + direction, col)
      twoForward == Pos(row + 2 * direction, col)
      forward ==
        IF isValidPosition(oneForward) /\ b[oneForward.row][oneForward.col] = null
        THEN <<oneForward>> \o
             (IF row = startingRow /\ b[twoForward.row][twoForward.col] = null
              THEN <<twoForward>> ELSE <<>>)
        ELSE <<>>
      canCapture(capturePos) ==
        /\ isValidPosition(capturePos)
        /\ LET targetPiece == b[capturePos.row][capturePos.col] IN
           \/ targetPiece # null /\ targetPiece.color # piece.color
           \/ /\ targetPiece = null
              /\ gs.enPassantTarget # nullPos
              /\ capturePos.row = gs.enPassantTarget.row
              /\ capturePos.col = gs.enPassantTarget.col
  IN IF piece = null \/ piece.type # "pawn" THEN <<>>
     ELSE forward \o SelectSeq(capturePositions(position, piece.color), canCapture)

\* The squares a sliding piece of `color` reaches walking from (r, c) in
\* direction (dr, dc), (r, c) included.
RECURSIVE slide(_, _, _, _, _, _)
slide(b, color, r, c, dr, dc) ==
  IF ~isValidPosition(Pos(r, c)) THEN <<>>
  ELSE IF b[r][c] = null
       THEN <<Pos(r, c)>> \o slide(b, color, r + dr, c + dc, dr, dc)
  ELSE IF b[r][c].color # color THEN <<Pos(r, c)>>
  ELSE <<>>

RECURSIVE slideAll(_, _, _, _)
slideAll(b, position, directions, i) ==
  IF i > Len(directions) THEN <<>>
  ELSE slide(b, b[position.row][position.col].color,
             position.row + directions[i][1], position.col + directions[i][2],
             directions[i][1], directions[i][2])
       \o slideAll(b, position, directions, i + 1)

getRookMoves(b, position) ==
  IF b[position.row][position.col] = null THEN <<>>
  ELSE slideAll(b, position, rookDirections, 1)

getBishopMoves(b, position) ==
  IF b[position.row][position.col] = null THEN <<>>
  ELSE slideAll(b, position, bishopDirections, 1)

getQueenMoves(b, position) ==
  getRookMoves(b, position) \o getBishopMoves(b, position)

\* stepMoves without the test for a piece of the mover's color.
stepMovesOntoAny(b, position, offsets) ==
  LET targets == [i \in DOMAIN offsets |->
                    Pos(position.row + offsets[i][1],
                        position.col + offsets[i][2])]
  IN SelectSeq(targets, isValidPosition)

\* The offsets' squares that are on the board and not held by a piece of the
\* mover's color.
stepMoves(b, position, offsets) ==
  LET piece == b[position.row][position.col]
      targets == [i \in DOMAIN offsets |->
                    Pos(position.row + offsets[i][1],
                        position.col + offsets[i][2])]
      free(move) ==
        /\ isValidPosition(move)
        /\ \/ b[move.row][move.col] = null
           \/ b[move.row][move.col].color # piece.color
  IN SelectSeq(targets, free)

\* getKnightMoves stepping by the king's offsets.
getKnightMovesByKingOffsets(b, position) ==
  IF b[position.row][position.col] = null THEN <<>>
  ELSE stepMoves(b, position, kingOffsets)

getKnightMoves(b, position) ==
  IF b[position.row][position.col] = null THEN <<>>
  ELSE stepMoves(b, position, knightOffsets)

\* getKingMoves: the kingside castling destination, when offered.
kingsideCastle(b, position, gs) ==
  LET row == position.row
      col == position.col
      piece == b[row][col]
      rook == b[row][7]
      path == << Pos(row, col + 1), Pos(row, col + 2) >>
      pathClear == \A i \in DOMAIN path : at(b, path[i]) = null
      kingNotInCheck ==
        /\ ~isKingInCheck(b, piece.color, gs)
        /\ ~isPositionUnderAttack(b, Pos(row, col + 1), piece.color, gs)
  IN IF /\ \/ piece.color = "white" /\ gs.whiteCanCastleKingside
           \/ piece.color = "black" /\ gs.blackCanCastleKingside
        /\ rook # null
        /\ rook.type = "rook"
        /\ rook.color = piece.color
        /\ ~rook.hasMoved
        /\ pathClear
        /\ kingNotInCheck
     THEN <<path[2]>>
     ELSE <<>>

\* getKingMoves: the queenside castling destination, when offered.
queensideCastle(b, position, gs) ==
  LET row == position.row
      col == position.col
      piece == b[row][col]
      rook == b[row][0]
      path == << Pos(row, col - 1), Pos(row, col - 2), Pos(row, col - 3) >>
      pathClear == \A i \in DOMAIN path : at(b, path[i]) = null
      kingNotInCheck ==
        /\ ~isKingInCheck(b, piece.color, gs)
        /\ ~isPositionUnderAttack(b, Pos(row, col - 1), piece.color, gs)
  IN IF /\ \/ piece.color = "white" /\ gs.whiteCanCastleQueenside
           \/ piece.color = "black" /\ gs.blackCanCastleQueenside
        /\ rook # null
        /\ rook.type = "rook"
        /\ rook.color = piece.color
        /\ ~rook.hasMoved
        /\ pathClear
        /\ kingNotInCheck
     THEN <<path[2]>>
     ELSE <<>>

getKingMoves(b, position, gs) ==
  LET piece == b[position.row][position.col] IN
  IF piece = null \/ piece.type # "king" THEN <<>>
  ELSE stepMoves(b, position, kingOffsets)
       \o (IF ~piece.hasMoved
           THEN kingsideCastle(b, position, gs) \o queensideCastle(b, position, gs)
           ELSE <<>>)

\* The moves of the piece's kind, before the legality filter.
pseudoLegalMoves(b, position, gs) ==
  LET piece == b[position.row][position.col] IN
  CASE piece.type = "pawn" -> getPawnMoves(b, position, gs)
    [] piece.type = "rook" -> getRookMoves(b, position)
    [] piece.type = "knight" -> getKnightMoves(b, position)
    [] piece.type = "bishop" -> getBishopMoves(b, position)
    [] piece.type = "queen" -> getQueenMoves(b, position)
    [] piece.type = "king" -> getKingMoves(b, position, gs)
    [] OTHER -> <<>>

\* getPossibleMoves without the legality filter.
getPossibleMovesUnfiltered(b, position, gs) ==
  IF b[position.row][position.col] = null THEN <<>>
  ELSE pseudoLegalMoves(b, position, gs)

\* getPossibleMoves: the filter simulates each move (no promotion choice) and
\* drops it when isKingInCheck reports the mover's king in check afterwards.
getPossibleMoves(b, position, gs) ==
  LET piece == b[position.row][position.col]
      safe(move) ==
        LET newBoard == movePiece(b, position, move, gs, "none").newBoard
            cleanNewBoard == cleanBoard(newBoard)
        IN ~isKingInCheck(cleanNewBoard, piece.color, gs)
  IN IF piece = null THEN <<>>
     ELSE SelectSeq(pseudoLegalMoves(b, position, gs), safe)

isCheckmate(b, color, gs) ==
  /\ isKingInCheck(b, color, gs)
  /\ \A p \in Squares :
       b[p.row][p.col].color = color => Len(getPossibleMoves(b, p, gs)) = 0

\* isStalemate without the test for check.
isStalemateAnyCheck(b, color, gs) ==
  \A p \in Squares :
    b[p.row][p.col].color = color => Len(getPossibleMoves(b, p, gs)) = 0

isStalemate(b, color, gs) ==
  /\ ~isKingInCheck(b, color, gs)
  /\ \A p \in Squares :
       b[p.row][p.col].color = color => Len(getPossibleMoves(b, p, gs)) = 0

(***************************************************************************)
(* The caller: the board component commits one legal move of the player    *)
(* to move at a time and threads the returned board and state forward.     *)
(***************************************************************************)

\* The kinds the promotion dialog offers.
PromotionKinds == {"queen", "rook", "bishop", "knight"}

\* The component's test for a pending promotion.
isPawnPromotion(pieceToMove, to) ==
  /\ pieceToMove.type = "pawn"
  /\ \/ pieceToMove.color = "white" /\ to.row = 0
     \/ pieceToMove.color = "black" /\ to.row = 7

\* Both handlers return at once when the game is over.
gameOver ==
  \/ isCheckmate(board, currentPlayer, gameState)
  \/ isStalemate(board, currentPlayer, gameState)

\* The squares a click can select, and the destinations then highlighted.
selectable(p) == board[p.row][p.col].color = currentPlayer

possibleMovesAt(p) == Range(getPossibleMoves(board, p, gameState))

(***************************************************************************)
(* Notation: a string is the sequence of its characters.                   *)
(***************************************************************************)

files == <<"a", "b", "c", "d", "e", "f", "g", "h">>

ranks == <<"8", "7", "6", "5", "4", "3", "2", "1">>

\* "N" for a knight, otherwise the first letter of the kind in upper case.
pieceLetter(type) ==
  CASE type = "knight" -> "N"
    [] type = "king" -> "K"
    [] type = "queen" -> "Q"
    [] type = "rook" -> "R"
    [] type = "bishop" -> "B"
    [] type = "pawn" -> "P"

\* The squares in the order the double loops visit them.
rowMajor == [i \in 1..64 |-> Pos((i - 1) \div 8, (i - 1) % 8)]

\* The other pieces of the same kind and color whose getPossibleMoves on b
\* under gs holds `to`.
findAmbiguousPieces(b, piece, from, to, gs) ==
  LET ambiguous(p) ==
        /\ p # from
        /\ b[p.row][p.col] # null
        /\ b[p.row][p.col].type = piece.type
        /\ b[p.row][p.col].color = piece.color
        /\ to \in Range(getPossibleMoves(b, p, gs))
  IN SelectSeq(rowMajor, ambiguous)

\* generateNotation: "x" when a captured piece was handed in.
captureMark(capturedPiece) == IF capturedPiece # null THEN <<"x">> ELSE <<>>

\* generateNotation: "=" and the letter of the kind when a choice was handed
\* in ("none" is the omitted argument).
promotionMark(promotionPiece) ==
  IF promotionPiece # "none"
  THEN <<"=", pieceLetter(promotionPiece)>>
  ELSE <<>>

\* checkMark without the test for mate.
checkMarkCheckOnly(piece, newBoard, gs) ==
  IF isKingInCheck(newBoard, opponent(piece.color), gs) THEN <<"+">>
  ELSE <<>>

\* generateNotation: "#" or "+" for the player to move next on newBoard.
checkMark(piece, newBoard, gs) ==
  LET nextPlayer == opponent(piece.color) IN
  IF isCheckmate(newBoard, nextPlayer, gs) THEN <<"#">>
  ELSE IF isKingInCheck(newBoard, nextPlayer, gs) THEN <<"+">>
  ELSE <<>>

\* generateNotation: the origin file, rank or both, by where the ambiguous
\* pieces stand.
disambiguation(ambiguousPieces, from) ==
  IF Len(ambiguousPieces) > 0
  THEN IF \A i \in DOMAIN ambiguousPieces : ambiguousPieces[i].col # from.col
       THEN <<files[from.col + 1]>>
       ELSE IF \A i \in DOMAIN ambiguousPieces :
                 ambiguousPieces[i].row # from.row
       THEN <<ranks[from.row + 1]>>
       ELSE <<files[from.col + 1], ranks[from.row + 1]>>
  ELSE <<>>

\* castlingNotation with the kingside text for both sides.
castlingNotationKingside(from, to) == <<"O", "-", "O">>

\* generateNotation: the text of a king move of two columns.
castlingNotation(from, to) ==
  IF to.col > from.col THEN <<"O", "-", "O">>
  ELSE <<"O", "-", "O", "-", "O">>

\* generateNotation.  b is the component's board at the time of the call
\* (the position before the move); newBoard and gs are what movePiece
\* returned.
generateNotation(b, piece, from, to, capturedPiece, newBoard, gs, promotionPiece) ==
  IF piece.type = "king" /\ Abs(from.col - to.col) = 2
  THEN castlingNotation(from, to)
  ELSE
    LET letter == IF piece.type # "pawn" THEN <<pieceLetter(piece.type)>>
                  ELSE <<>>
        pawnFile == IF piece.type = "pawn" /\ capturedPiece # null
                    THEN <<files[from.col + 1]>>
                    ELSE <<>>
        prefix == disambiguation(findAmbiguousPieces(b, piece, from, to, gs),
                                 from)
    IN letter \o pawnFile \o prefix \o captureMark(capturedPiece)
       \o <<files[to.col + 1], ranks[to.row + 1]>>
       \o promotionMark(promotionPiece)
       \o checkMark(piece, newBoard, gs)

(***************************************************************************)
(* Exploration bounds: games follow one of the lines below from the        *)
(* initial position and leave it by at most MaxPly moves.                  *)
(***************************************************************************)

MaxPly == 1

\* g1f3 c7c5 e2e3 c5c4 f1e2 c4c3 a2a3 c3d2
PawnCheckLine ==
  << <<7, 6, 5, 5>>, <<1, 2, 3, 2>>, <<6, 4, 5, 4>>, <<3, 2, 4, 2>>,
     <<7, 5, 6, 4>>, <<4, 2, 5, 2>>, <<6, 0, 5, 0>>, <<5, 2, 6, 3>> >>

\* g1f3 h7h5 e2e3 h5h4 f1e2 h4h3 b2b3 h3g2 c1b2
PawnRaidLine ==
  << <<7, 6, 5, 5>>, <<1, 7, 3, 7>>, <<6, 4, 5, 4>>, <<3, 7, 4, 7>>,
     <<7, 5, 6, 4>>, <<4, 7, 5, 7>>, <<6, 1, 5, 1>>, <<5, 7, 6, 6>>,
     <<7, 2, 6, 1>> >>

\* e2e4 a7a5 e4e5 a5a4 b2b4 d7d5
EnPassantLine ==
  << <<6, 4, 4, 4>>, <<1, 0, 3, 0>>, <<4, 4, 3, 4>>, <<3, 0, 4, 0>>,
     <<6, 1, 4, 1>>, <<1, 3, 3, 3>> >>

\* d2d4 d7d5 c1f4 c8f5 b1c3 b8c6 d1d2 d8d7 e1c1 e8c8
QueensideLine ==
  << <<6, 3, 4, 3>>, <<1, 3, 3, 3>>, <<7, 2, 4, 5>>, <<0, 2, 3, 5>>,
     <<7, 1, 5, 2>>, <<0, 1, 2, 2>>, <<7, 3, 6, 3>>, <<0, 3, 1, 3>>,
     <<7, 4, 7, 2>>, <<0, 4, 0, 2>> >>

\* e2e4 e7e5 g1f3 g8f6 f1e2 f8e7 e1g1
KingsideLine ==
  << <<6, 4, 4, 4>>, <<1, 4, 3, 4>>, <<7, 6, 5, 5>>, <<0, 6, 2, 5>>,
     <<7, 5, 6, 4>>, <<0, 5, 1, 4>>, <<7, 4, 7, 6>> >>

\* f2f3 e7e5 g2g4 d8h4
FoolsMateLine ==
  << <<6, 5, 5, 5>>, <<1, 4, 3, 4>>, <<6, 6, 4, 6>>, <<0, 3, 4, 7>> >>

\* g1f3 c7c5 e2e3 c5c4 f1e2 c4c3 a2a3 c3d2 a3a4 d2e1
KingCaptureLine ==
  PawnCheckLine \o << <<5, 0, 4, 0>>, <<6, 3, 7, 4>> >>

\* From the late position below: g1g6
StalemateLine == << <<7, 6, 2, 6>> >>

\* From the late position below: a7a8 h8h7 g1g7
QueenMateLine == << <<1, 0, 0, 0>>, <<0, 7, 1, 7>>, <<7, 6, 1, 6>> >>

\* e2e4 d7d5 c2c4 a7a6
PawnPairLine ==
  << <<6, 4, 4, 4>>, <<1, 3, 3, 3>>, <<6, 2, 4, 2>>, <<1, 0, 2, 0>> >>

\* d2d4 a7a6 d4d5 a6a5 f2f4 a5a4 f4f5 e7e5
PawnPairEnPassantLine ==
  << <<6, 3, 4, 3>>, <<1, 0, 2, 0>>, <<4, 3, 3, 3>>, <<2, 0, 3, 0>>,
     <<6, 5, 4, 5>>, <<3, 0, 4, 0>>, <<4, 5, 3, 5>>, <<1, 4, 3, 4>> >>

Book == << PawnCheckLine, PawnRaidLine, EnPassantLine, QueensideLine,
           KingsideLine, FoolsMateLine, KingCaptureLine, StalemateLine,
           QueenMateLine, PawnPairLine, PawnPairEnPassantLine >>

played(h) ==
  [i \in DOMAIN h |-> <<h[i].from.row, h[i].from.col, h[i].to.row, h[i].to.col>>]

\* The game h follows a line for its first n moves.
follows(h, n) ==
  \E k \in DOMAIN Book :
    /\ n <= Len(Book[k])
    /\ \A i \in 1..n : played(h)[i] = Book[k][i]

\* The length of the longest prefix of the game h that follows a line.
onBook(h) ==
  CHOOSE n \in 0..Len(h) :
    follows(h, n) /\ \A m \in (n + 1)..Len(h) : ~follows(h, m)

\* The game has left the lines by MaxPly moves already.
offBook == Len(moveHistory) - onBook(moveHistory) >= MaxPly

\* The move from -> to is not the next move of a line the game is following.
offLine(from, to) ==
  \A k \in DOMAIN Book :
    \/ Len(moveHistory) >= Len(Book[k])
    \/ \E i \in DOMAIN moveHistory : played(moveHistory)[i] # Book[k][i]
    \/ Book[k][Len(moveHistory) + 1] # <<from.row, from.col, to.row, to.col>>

\* The move from -> to would take the game more than MaxPly moves off the lines.
outOfBounds(from, to) == offBook /\ offLine(from, to)

\* No move at all is within the bounds.
exhausted ==
  /\ offBook
  /\ \A k \in DOMAIN Book :
       \/ Len(moveHistory) >= Len(Book[k])
       \/ \E i \in DOMAIN moveHistory : played(moveHistory)[i] # Book[k][i]

(***************************************************************************)
(* Actions                                                                 *)
(***************************************************************************)

\* record leaving the turn with the player who moved.
recordKeepsTurn(pieceToMove, from, to, result, promotionPiece) ==
  LET entry == [piece |-> pieceToMove, from |-> from, to |-> to,
                capturedPiece |-> result.capturedPiece,
                promotion |-> promotionPiece,
                notation |-> <<>>]
  IN /\ moveHistory' = Append(moveHistory, entry)
     /\ board' = result.newBoard
     /\ gameState' = result.newGameState
     /\ currentPlayer' = currentPlayer
     /\ selectedPiece' = nullPos
     /\ possibleMoves' = <<>>

\* The history entry of a move and the state the component stores: result is
\* what movePiece returned.
record(pieceToMove, from, to, result, promotionPiece) ==
  LET entry == [piece |-> pieceToMove, from |-> from, to |-> to,
                capturedPiece |-> result.capturedPiece,
                promotion |-> promotionPiece,
                notation |-> generateNotation(board, pieceToMove, from, to,
                                              result.capturedPiece,
                                              result.newBoard,
                                              result.newGameState,
                                              promotionPiece)]
  IN /\ moveHistory' = Append(moveHistory, entry)
     /\ board' = result.newBoard
     /\ gameState' = result.newGameState
     /\ currentPlayer' = opponent(currentPlayer)
     /\ selectedPiece' = nullPos
     /\ possibleMoves' = <<>>

\* movePiece is called, a history entry appended, the result stored and the
\* turn passed.
commit(from, to, promotionPiece) ==
  record(board[from.row][from.col], from, to,
         movePiece(board, from, to, gameState, promotionPiece),
         promotionPiece)

\* handleSquareClick on a piece of the player to move, then on one of its
\* highlighted destinations that is no promotion.
Move ==
  /\ ~exhausted
  /\ ~gameOver
  /\ \E from \in Squares :
       /\ selectable(from)
       /\ \E to \in possibleMovesAt(from) :
            /\ ~isPawnPromotion(board[from.row][from.col], to)
            /\ ~outOfBounds(from, to)
            /\ commit(from, to, "none")
            /\ UNCHANGED <<showPromotionModal, promotionPosition>>

\* The same clicks for a pawn reaching its far rank, then handlePromotion
\* with the kind chosen in the dialog.
Promote ==
  /\ ~exhausted
  /\ ~gameOver
  /\ \E from \in Squares :
       /\ selectable(from)
       /\ \E to \in possibleMovesAt(from) :
            /\ isPawnPromotion(board[from.row][from.col], to)
            /\ ~outOfBounds(from, to)
            /\ \E pieceType \in PromotionKinds : commit(from, to, pieceType)
            /\ showPromotionModal' = FALSE
            /\ promotionPosition' = nullPos

Init ==
  /\ board = initialBoard
  /\ gameState = initialGameState
  /\ currentPlayer = "white"
  /\ moveHistory = <<>>
  /\ selectedPiece = nullPos
  /\ possibleMoves = <<>>
  /\ showPromotionModal = FALSE
  /\ promotionPosition = nullPos

Next == Move \/ Promote

Spec == Init /\ [][Next]_vars

\* A late position of a game, white to move: white king f7, queen g1 and
\* pawn a7 against the black king on h8.  Every piece has moved and no
\* castling right is left; moveHistory records the moves from here on.
lateBoard ==
  [r \in Rows |-> [c \in Rows |->
     IF r = 0 /\ c = 7 THEN [type |-> "king", color |-> "black", hasMoved |-> TRUE]
     ELSE IF r = 1 /\ c = 5 THEN [type |-> "king", color |-> "white", hasMoved |-> TRUE]
     ELSE IF r = 7 /\ c = 6 THEN [type |-> "queen", color |-> "white", hasMoved |-> TRUE]
     ELSE IF r = 1 /\ c = 0 THEN [type |-> "pawn", color |-> "white", hasMoved |-> TRUE]
     ELSE null]]

lateGameState ==
  [whiteCanCastleKingside |-> FALSE,
   whiteCanCastleQueenside |-> FALSE,
   blackCanCastleKingside |-> FALSE,
   blackCanCastleQueenside |-> FALSE,
   enPassantTarget |-> nullPos,
   halfMoveClock |-> 0,
   fullMoveNumber |-> 60]

EndgameInit ==
  /\ board = lateBoard
  /\ gameState = lateGameState
  /\ currentPlayer = "white"
  /\ moveHistory = <<>>
  /\ selectedPiece = nullPos
  /\ possibleMoves = <<>>
  /\ showPromotionModal = FALSE
  /\ promotionPosition = nullPos

\* The same handlers driven from the late position.
Endgame == EndgameInit /\ [][Next]_vars

(***************************************************************************)
(* The handlers one call at a time: square clicks, promotion choices and   *)
(* resets in any order.  The games played by clicks follow the lines of    *)
(* ClickBook; they leave them by at most MaxPly moves, the last of which   *)
(* is committed by a promotion choice.                                     *)
(***************************************************************************)

ClickBook == << PawnRaidLine, FoolsMateLine >>

\* The number of moves by which the game played by clicks has left the
\* lines of ClickBook.
strayed ==
  LET h == played(moveHistory)
      along(n) == \E k \in DOMAIN ClickBook :
                    /\ n <= Len(ClickBook[k])
                    /\ \A i \in 1..n : h[i] = ClickBook[k][i]
      onLines == CHOOSE n \in 0..Len(h) :
                   along(n) /\ \A m \in (n + 1)..Len(h) : ~along(m)
  IN Len(h) - onLines

\* The move from -> to is the next move of a line the game is following.
nextOnLine(from, to) ==
  \E k \in DOMAIN ClickBook :
    /\ Len(moveHistory) < Len(ClickBook[k])
    /\ \A i \in DOMAIN moveHistory : played(moveHistory)[i] = ClickBook[k][i]
    /\ ClickBook[k][Len(moveHistory) + 1] = <<from.row, from.col, to.row, to.col>>

\* handleSquareClick: the clicked square holds a piece of the player to
\* move; it becomes the selection and its moves are highlighted.
select(row, col) ==
  /\ selectedPiece' = Pos(row, col)
  /\ possibleMoves' = getPossibleMoves(board, Pos(row, col), gameState)
  /\ UNCHANGED <<board, gameState, currentPlayer, moveHistory, showPromotionModal, promotionPosition>>

\* handleSquareClick: with a selection, a click on any other square that is
\* not highlighted clears the selection.
deselect ==
  /\ selectedPiece' = nullPos
  /\ possibleMoves' = <<>>
  /\ UNCHANGED <<board, gameState, currentPlayer, moveHistory, showPromotionModal, promotionPosition>>

\* handleSquareClick: a pawn sent to its far rank opens the promotion
\* dialog and nothing else.
openPromotion(row, col) ==
  /\ promotionPosition' = Pos(row, col)
  /\ showPromotionModal' = TRUE
  /\ UNCHANGED <<board, gameState, currentPlayer, moveHistory, selectedPiece, possibleMoves>>

\* handleSquareClick: a click on a highlighted square with a selection.
clickDestination(row, col) ==
  IF board[selectedPiece.row][selectedPiece.col] = null
  THEN UNCHANGED vars
  ELSE IF isPawnPromotion(board[selectedPiece.row][selectedPiece.col], Pos(row, col))
  THEN openPromotion(row, col)
  ELSE /\ commit(selectedPiece, Pos(row, col), "none")
       /\ UNCHANGED <<showPromotionModal, promotionPosition>>

\* handleSquareClick once the game is known not to be over.
clickOnSquare(row, col) ==
  IF selectedPiece # nullPos
  THEN IF Pos(row, col) \in Range(possibleMoves)
       THEN clickDestination(row, col)
       ELSE IF board[row][col].color = currentPlayer
       THEN select(row, col)
       ELSE deselect
  ELSE IF board[row][col].color = currentPlayer
       THEN select(row, col)
       ELSE UNCHANGED vars

\* The bounds of the exploration: no click once the game has left the
\* lines by MaxPly moves, and no click that commits the last of them.
clickInBounds(row, col) ==
  /\ strayed < MaxPly
  /\ (/\ selectedPiece # nullPos
      /\ Pos(row, col) \in Range(possibleMoves)
      /\ ~isPawnPromotion(board[selectedPiece.row][selectedPiece.col], Pos(row, col))) =>
       \/ nextOnLine(selectedPiece, Pos(row, col))
       \/ strayed + 1 < MaxPly

\* handleSquareClick without its first test: clicks are handled whether or
\* not the game is over.
HandleSquareClickUngated ==
  \E row \in Rows, col \in Rows :
    clickInBounds(row, col) /\ clickOnSquare(row, col)

\* handleSquareClick on any square: it returns at once when the game is
\* over.
HandleSquareClick ==
  IF gameOver
  THEN UNCHANGED vars
  ELSE \E row \in Rows, col \in Rows :
         clickInBounds(row, col) /\ clickOnSquare(row, col)

\* handlePromotion with the kind chosen.
handlePromotion(pieceType) ==
  IF selectedPiece = nullPos \/ promotionPosition = nullPos
  THEN UNCHANGED vars
  ELSE IF board[selectedPiece.row][selectedPiece.col] = null
  THEN UNCHANGED vars
  ELSE /\ commit(selectedPiece, promotionPosition, pieceType)
       /\ showPromotionModal' = FALSE
       /\ promotionPosition' = nullPos

\* A button of the promotion dialog, which is rendered while
\* showPromotionModal is set.
HandlePromotion ==
  /\ showPromotionModal
  /\ strayed < MaxPly
  /\ \E pieceType \in PromotionKinds : handlePromotion(pieceType)

\* resetGame.
ResetGame ==
  /\ board' = initialBoard
  /\ selectedPiece' = nullPos
  /\ possibleMoves' = <<>>
  /\ currentPlayer' = "white"
  /\ moveHistory' = <<>>
  /\ gameState' = initialGameState
  /\ UNCHANGED <<showPromotionModal, promotionPosition>>

ClickNext == HandleSquareClick \/ HandlePromotion \/ ResetGame

Clicks == Init /\ [][ClickNext]_vars

(***************************************************************************)
(* Vocabulary of the properties                                            *)
(***************************************************************************)

\* The move committed last: the piece as it stood on `from`, the squares,
\* the piece taken from `to` (null if none) and the promotion choice.
lastMove == moveHistory[Len(moveHistory)]

\* The piece on p could capture on sq on its next move, by the move
\* generators: a pawn on one of its two capture squares, a king on an
\* adjacent square, any other piece on a square of its move list.  sq is
\* empty or holds a piece of the other color.
attacks(b, p, sq, gs) ==
  LET piece == b[p.row][p.col] IN
  CASE piece.type = "pawn" -> sq \in Range(capturePositions(p, piece.color))
    [] piece.type = "king" -> sq \in Range(stepMoves(b, p, kingOffsets))
    [] OTHER -> sq \in Range(pseudoLegalMoves(b, p, gs))

\* Some piece of the opponent of `color` could capture on sq.
attacked(b, sq, color, gs) ==
  \E p \in Squares :
    /\ b[p.row][p.col].color = opponent(color)
    /\ attacks(b, p, sq, gs)

\* The two-column king moves getPossibleMoves offers the king on k.
castlingMoves(b, k, gs) ==
  {to \in Range(getPossibleMoves(b, k, gs)) : Abs(to.col - k.col) = 2}

Colors == {"white", "black"}

(***************************************************************************)
(* Properties                                                              *)
(***************************************************************************)

\* C1 - Legality soundness: after a move taken from getPossibleMoves and
\* applied with movePiece, no opposing piece could capture on the square of
\* the mover's own king.
C1_MoverKingNotAttacked ==
  moveHistory # <<>> =>
    LET mover == lastMove.piece.color
        kingPosition == findKing(board, mover)
    IN kingPosition # nullPos =>
         ~attacked(board, kingPosition, mover, gameState)

\* C2 - Pawn attack detection: whenever getPawnMoves of a pawn lists a square
\* as a diagonal capture of a piece, isPositionUnderAttack reports that
\* square attacked for the color of the piece standing on it.
C2_PawnCaptureIsAttack ==
  \A p \in Squares :
    board[p.row][p.col].type = "pawn" =>
      \A sq \in Range(getPawnMoves(board, p, gameState)) :
        (sq.col # p.col /\ board[sq.row][sq.col] # null) =>
          isPositionUnderAttack(board, sq, board[sq.row][sq.col].color,
                                gameState)

\* C3 - Castling denial: getPossibleMoves never offers a king a two-column
\* move when the square it passes through or the square it lands on is
\* attacked by an opposing piece.
C3_NoCastlingThroughAttack ==
  \A color \in Colors :
    LET k == findKing(board, color) IN
    k # nullPos =>
      \A to \in castlingMoves(board, k, gameState) :
        /\ ~attacked(board, Pos(k.row, (k.col + to.col) \div 2), color, gameState)
        /\ ~attacked(board, to, color, gameState)

\* C4 - Castling preconditions: a two-column king move is offered only if
\* the king has not moved, the castling right of that color and side is set,
\* an unmoved rook of the king's color stands on that side's corner of the
\* king's row, the squares between them are empty and the king is not in
\* check.
C4_CastlingPreconditions ==
  \A color \in Colors :
    LET k == findKing(board, color) IN
    k # nullPos =>
      \A to \in castlingMoves(board, k, gameState) :
        LET kingside == to.col > k.col
            corner == IF kingside THEN 7 ELSE 0
            rook == board[k.row][corner]
            flag == IF color = "white"
                    THEN IF kingside THEN gameState.whiteCanCastleKingside
                         ELSE gameState.whiteCanCastleQueenside
                    ELSE IF kingside THEN gameState.blackCanCastleKingside
                         ELSE gameState.blackCanCastleQueenside
        IN /\ ~board[k.row][k.col].hasMoved
           /\ flag
           /\ rook.type = "rook" /\ rook.color = color /\ ~rook.hasMoved
           /\ \A c \in Rows :
                ((c > k.col /\ c < corner) \/ (c < k.col /\ c > corner)) =>
                  board[k.row][c] = null
           /\ ~attacked(board, k, color, gameState)

\* The castling right of that color and side in the game state gs.
right(gs, color, kingside) ==
  IF color = "white"
  THEN IF kingside THEN gs.whiteCanCastleKingside ELSE gs.whiteCanCastleQueenside
  ELSE IF kingside THEN gs.blackCanCastleKingside ELSE gs.blackCanCastleQueenside

\* The back rank of that color.
homeRow(color) == IF color = "white" THEN 7 ELSE 0

\* The last move was a two-square pawn advance; the square it passed over.
doubleAdvance ==
  /\ moveHistory # <<>>
  /\ lastMove.piece.type = "pawn"
  /\ Abs(lastMove.from.row - lastMove.to.row) = 2

skipped == Pos((lastMove.from.row + lastMove.to.row) \div 2, lastMove.from.col)

\* The en-passant captures getPossibleMoves offers the pawns of `color`: a
\* pawn's diagonal move onto an empty square, as <<pawn square, destination>>.
enPassantOffers(color) ==
  UNION {{<<p, to>> : to \in {t \in Range(getPossibleMoves(board, p, gameState)) :
                               t.col # p.col /\ board[t.row][t.col] = null}} :
         p \in {q \in Squares : /\ board[q.row][q.col].type = "pawn"
                                /\ board[q.row][q.col].color = color}}

\* C5 - Castling rights are monotone: a castling right that is false stays
\* false over every move.
C5_CastlingRightsMonotone ==
  [][\A color \in Colors, kingside \in BOOLEAN :
       ~right(gameState, color, kingside) => ~right(gameState', color, kingside)]_vars

\* A right of white is false and black has moved since.
C5_Witness ==
  /\ moveHistory # <<>>
  /\ ~gameState.whiteCanCastleKingside
  /\ lastMove.piece.color = "black"

\* C6 - En passant window: after a two-square pawn advance enPassantTarget is
\* the square passed over, after any other move it is null; an en-passant
\* capture is offered only onto that square and only right after the advance.
C6_EnPassantWindow ==
  /\ gameState.enPassantTarget = IF doubleAdvance THEN skipped ELSE nullPos
  /\ \A color \in Colors :
       \A offer \in enPassantOffers(color) : doubleAdvance /\ offer[2] = skipped

\* A pawn has just advanced two squares and the reply may capture it en
\* passant.
C6_Witness == doubleAdvance /\ enPassantOffers(currentPlayer) # {}

\* C7 - En passant execution: a pawn move onto the en-passant target puts
\* the pawn on `to`, empties `from` and the square behind `to` where the
\* enemy pawn that just advanced two squares stood, and changes nothing else.
C7_EnPassantExecution ==
  [][LET m == moveHistory'[Len(moveHistory')]
         victim == Pos(m.from.row, m.to.col)
     IN (m.piece.type = "pawn" /\ m.to = gameState.enPassantTarget) =>
          /\ doubleAdvance /\ lastMove.to = victim
          /\ board[victim.row][victim.col].type = "pawn"
          /\ board[victim.row][victim.col].color = opponent(m.piece.color)
          /\ \A sq \in Squares :
               board'[sq.row][sq.col] =
                 IF sq = m.to THEN [m.piece EXCEPT !.hasMoved = TRUE]
                 ELSE IF sq = m.from \/ sq = victim THEN null
                 ELSE board[sq.row][sq.col]]_vars

\* The last move was an en-passant capture: a pawn moved diagonally and
\* nothing stood on `to`.
C7_Witness ==
  /\ moveHistory # <<>>
  /\ lastMove.piece.type = "pawn"
  /\ lastMove.from.col # lastMove.to.col
  /\ lastMove.capturedPiece = null

\* C8 - Castling execution: a two-column king move puts the king on column 6
\* (kingside) or 2 (queenside), moves the rook of that side from its corner
\* to column 5 or 3, and leaves the king's origin and the corner empty.
C8_CastlingExecution ==
  [][LET m == moveHistory'[Len(moveHistory')]
         row == m.from.row
         kingside == m.to.col > m.from.col
         corner == IF kingside THEN 7 ELSE 0
         rookTo == IF kingside THEN 5 ELSE 3
     IN (m.piece.type = "king" /\ Abs(m.from.col - m.to.col) = 2) =>
          /\ m.to = Pos(row, IF kingside THEN 6 ELSE 2)
          /\ board'[row][m.to.col] = [m.piece EXCEPT !.hasMoved = TRUE]
          /\ board[row][corner].type = "rook"
          /\ board[row][corner].color = m.piece.color
          /\ board'[row][rookTo] = board[row][corner]
          /\ board'[row][m.from.col] = null
          /\ board'[row][corner] = null]_vars

\* The last move was a castling move.
C8_Witness ==
  /\ moveHistory # <<>>
  /\ lastMove.piece.type = "king"
  /\ Abs(lastMove.from.col - lastMove.to.col) = 2

\* C9 - Castling rights forfeited by moving: a king move clears both rights
\* of the mover; a rook leaving a home corner of its color clears the right
\* of that side; a right of the other color is cleared only by capturing a
\* rook on that color's home corner of that side.
C9_RightsForfeitedByMoving ==
  [][LET m == moveHistory'[Len(moveHistory')]
         mover == m.piece.color
         other == opponent(mover)
     IN /\ m.piece.type = "king" =>
             /\ ~right(gameState', mover, TRUE)
             /\ ~right(gameState', mover, FALSE)
        /\ (/\ m.piece.type = "rook"
            /\ m.from.row = homeRow(mover)
            /\ m.from.col \in {0, 7}) =>
             ~right(gameState', mover, m.from.col = 7)
        /\ \A kingside \in BOOLEAN :
             (right(gameState, other, kingside)
              /\ ~right(gameState', other, kingside)) =>
               /\ m.capturedPiece.type = "rook"
               /\ m.capturedPiece.color = other
               /\ m.to = Pos(homeRow(other), IF kingside THEN 7 ELSE 0)]_vars

\* The last move was a king move of one square.
C9_Witness ==
  /\ moveHistory # <<>>
  /\ lastMove.piece.type = "king"
  /\ Abs(lastMove.from.col - lastMove.to.col) < 2

\* C10 - Castling rights forfeited by capture: after a move that captured a
\* rook on a home corner of the rook's color, the right of that color and
\* side is false.
C10_RightsForfeitedByCapture ==
  moveHistory # <<>> =>
    LET captured == lastMove.capturedPiece IN
    (/\ captured.type = "rook"
     /\ lastMove.to.row = homeRow(captured.color)
     /\ lastMove.to.col \in {0, 7}) =>
      ~right(gameState, captured.color, lastMove.to.col = 7)

\* The last move captured a rook that had never moved on its home corner,
\* while the king of that color still stands unmoved on its home square.
C10_Witness ==
  /\ moveHistory # <<>>
  /\ lastMove.capturedPiece.type = "rook"
  /\ ~lastMove.capturedPiece.hasMoved
  /\ lastMove.to.row = homeRow(lastMove.capturedPiece.color)
  /\ lastMove.to.col \in {0, 7}
  /\ board[lastMove.to.row][4] =
       [type |-> "king", color |-> lastMove.capturedPiece.color,
        hasMoved |-> FALSE]

\* The farthest rank of a pawn of that color.
farRank(color) == IF color = "white" THEN 0 ELSE 7

\* The letter notation uses for a kind.
kindLetter ==
  [pawn |-> "P", rook |-> "R", knight |-> "N", bishop |-> "B", queen |-> "Q",
   king |-> "K"]

\* A notation without its check or mate suffix: the text of the move.
moveText(notation) ==
  IF notation # <<>> /\ notation[Len(notation)] \in {"+", "#"}
  THEN SubSeq(notation, 1, Len(notation) - 1)
  ELSE notation

endsWith(s, t) ==
  /\ Len(s) >= Len(t)
  /\ SubSeq(s, Len(s) - Len(t) + 1, Len(s)) = t

\* The pawn moves onto the far rank that getPossibleMoves offers, as
\* <<pawn square, destination>>.
promotionMoves ==
  UNION {{<<p, to>> : to \in {t \in Range(getPossibleMoves(board, p, gameState)) :
                               t.row = farRank(board[p.row][p.col].color)}} :
         p \in {q \in Squares : board[q.row][q.col].type = "pawn"}}

\* C11 - Promotion: when movePiece moves a pawn onto its farthest rank, the
\* piece on `to` has the kind given by promotionPiece, or queen when no
\* choice is supplied, and the pawn's color; the notation generated with a
\* choice ends the move text with "=" and the letter of the chosen kind.
C11_Promotion ==
  /\ \A m \in promotionMoves :
       LET from == m[1]
           to == m[2]
           pawn == board[from.row][from.col]
       IN \A promotionPiece \in PieceType \cup {"none"} :
            LET result == movePiece(board, from, to, gameState, promotionPiece)
                kind == IF promotionPiece = "none" THEN "queen"
                        ELSE promotionPiece
                notation == generateNotation(board, pawn, from, to,
                                             result.capturedPiece,
                                             result.newBoard,
                                             result.newGameState,
                                             promotionPiece)
            IN /\ result.newBoard[to.row][to.col].type = kind
               /\ result.newBoard[to.row][to.col].color = pawn.color
               /\ promotionPiece # "none" =>
                    endsWith(moveText(notation), <<"=", kindLetter[kind]>>)
  /\ (/\ moveHistory # <<>>
      /\ lastMove.piece.type = "pawn"
      /\ lastMove.to.row = farRank(lastMove.piece.color)) =>
       /\ lastMove.promotion \in PromotionKinds
       /\ board[lastMove.to.row][lastMove.to.col].type = lastMove.promotion
       /\ board[lastMove.to.row][lastMove.to.col].color = lastMove.piece.color
       /\ endsWith(moveText(lastMove.notation),
                   <<"=", kindLetter[lastMove.promotion]>>)

\* The last move promoted a pawn to a rook with check or mate, so the
\* notation carries a suffix after "=R".
C11_Witness ==
  /\ moveHistory # <<>>
  /\ lastMove.piece.type = "pawn"
  /\ lastMove.promotion = "rook"
  /\ board[lastMove.to.row][lastMove.to.col].type = "rook"
  /\ lastMove.notation # moveText(lastMove.notation)
  /\ endsWith(moveText(lastMove.notation), <<"=", "R">>)

\* The destinations getPossibleMoves offers the pieces of that color.
legalDestinations(color) ==
  UNION {Range(getPossibleMoves(board, p, gameState)) :
         p \in {q \in Squares : board[q.row][q.col].color = color}}

\* C12 - Terminal detection: isCheckmate is true iff isKingInCheck is true
\* and getPossibleMoves is empty for every piece of that color; isStalemate
\* is true iff isKingInCheck is false and getPossibleMoves is empty for
\* every piece of that color; the two are never both true.
C12_TerminalDetection ==
  \A color \in Colors :
    LET inCheck == isKingInCheck(board, color, gameState)
        noMove == legalDestinations(color) = {}
        checkmate == isCheckmate(board, color, gameState)
        stalemate == isStalemate(board, color, gameState)
    IN /\ checkmate <=> (inCheck /\ noMove)
       /\ stalemate <=> (~inCheck /\ noMove)
       /\ ~(checkmate /\ stalemate)

\* The player to move is stalemated: not in check and without a move.
C12_Witness ==
  /\ moveHistory # <<>>
  /\ isStalemate(board, currentPlayer, gameState)
  /\ ~isKingInCheck(board, currentPlayer, gameState)
  /\ legalDestinations(currentPlayer) = {}

\* The game played so far is 1. f3 e5 2. g4 Qh4.
foolsMate == played(moveHistory) = FoolsMateLine

\* C13 as stated - Fool's mate: in the final position of 1. f3 e5 2. g4 Qh4,
\* isCheckmate for black is true and getPossibleMoves is empty for every
\* black piece.
C13_FoolsMateBlack ==
  foolsMate =>
    /\ isCheckmate(board, "black", gameState)
    /\ legalDestinations("black") = {}

\* C13 - Fool's mate, amended: in the final position of 1. f3 e5 2. g4 Qh4,
\* isCheckmate for white, the player to move, is true and getPossibleMoves
\* is empty for every white piece; black is not checkmated.
C13_FoolsMateWhite ==
  foolsMate =>
    /\ isCheckmate(board, "white", gameState)
    /\ legalDestinations("white") = {}
    /\ ~isCheckmate(board, "black", gameState)

\* The final position of the fool's mate, the queen's move recorded as mate.
C13_Witness ==
  /\ foolsMate
  /\ currentPlayer = "white"
  /\ lastMove.notation = <<"Q", "h", "4", "#">>

\* The list holds exactly the squares of the set, each once.
lists(moves, squares) == Range(moves) = squares /\ Len(moves) = Cardinality(squares)

\* The moves getPossibleMoves offers the pieces of that color, as
\* <<origin, index in the piece's list>>.
legalMoves(color) ==
  UNION {{<<p, i>> : i \in DOMAIN getPossibleMoves(board, p, gameState)} :
         p \in {q \in Squares : board[q.row][q.col].color = color}}

\* C14 - Initial position: on initialBoard with all castling rights and no
\* en-passant target, getPossibleMoves returns exactly (5,c) and (4,c) for
\* the white pawn on (6,c), (5,0) and (5,2) for the knight on (7,1), (5,5)
\* and (5,7) for the knight on (7,6), nothing for the white rooks, bishops,
\* queen and king: 20 white moves in total.
C14_InitialMoves ==
  (board = initialBoard /\ gameState = initialGameState) =>
    /\ \A c \in Rows :
         lists(getPossibleMoves(board, Pos(6, c), gameState),
               {Pos(5, c), Pos(4, c)})
    /\ lists(getPossibleMoves(board, Pos(7, 1), gameState),
             {Pos(5, 0), Pos(5, 2)})
    /\ lists(getPossibleMoves(board, Pos(7, 6), gameState),
             {Pos(5, 5), Pos(5, 7)})
    /\ \A c \in Rows \ {1, 6} :
         getPossibleMoves(board, Pos(7, c), gameState) = <<>>
    /\ Cardinality(legalMoves("white")) = 20

\* The game has not started: the initial board and state, and the 16
\* squares of rows 5 and 4 are the destinations open to white.
C14_Witness ==
  /\ moveHistory = <<>>
  /\ board = initialBoard
  /\ gameState = initialGameState
  /\ legalDestinations("white") = {Pos(r, c) : r \in {4, 5}, c \in Rows}

\* The squares in the pseudo-legal move lists of the pieces of that color
\* and those kinds, castling moves left out.
targets(color, kinds) ==
  UNION {Range(IF board[p.row][p.col].type = "king"
               THEN stepMoves(board, p, kingOffsets)
               ELSE pseudoLegalMoves(board, p, gameState)) :
         p \in {q \in Squares : /\ board[q.row][q.col].color = color
                                 /\ board[q.row][q.col].type \in kinds}}

\* C15 - Attack detection for knights, kings and sliding pieces agrees with
\* move generation: a square holding a piece of color c is reported attacked
\* on account of a knight, a king, or a bishop, rook or queen iff some
\* opposing piece of that kind has the square in its pseudo-legal move list
\* (castling excluded); a piece between a slider and the square blocks.
C15_AttackAgreesWithMoves ==
  LET knights == [c \in Colors |-> targets(c, {"knight"})]
      kings == [c \in Colors |-> targets(c, {"king"})]
      sliders == [c \in Colors |-> targets(c, {"bishop", "rook", "queen"})]
  IN \A sq \in Squares :
       LET c == board[sq.row][sq.col].color IN
       c \in Colors =>
         /\ attackedByKnight(board, sq, c) <=> sq \in knights[opponent(c)]
         /\ attackedByKing(board, sq, c) <=> sq \in kings[opponent(c)]
         /\ attackedBySlider(board, sq, c) <=> sq \in sliders[opponent(c)]

\* A piece stands between an opposing rook and a piece on the rook's file,
\* and another piece is attacked by an opposing slider.
C15_Witness ==
  /\ \E sq \in Squares :
       LET c == board[sq.row][sq.col].color IN
       /\ c \in Colors
       /\ attackedBySlider(board, sq, c)
  /\ \E sq \in Squares :
       LET c == board[sq.row][sq.col].color
           hit == firstOccupied(board, sq.row + 1, sq.col, 1, 0)
           behind == IF hit = nullPos THEN nullPos
                     ELSE firstOccupied(board, hit.row + 1, hit.col, 1, 0)
       IN /\ c \in Colors
          /\ behind # nullPos
          /\ board[behind.row][behind.col].type = "rook"
          /\ board[behind.row][behind.col].color = opponent(c)
          /\ ~attackedBySlider(board, sq, c)

\* The number of pieces of that color on the board b.
pieceCount(b, color) ==
  Cardinality({p \in Squares : b[p.row][p.col].color = color})

\* C16 - Half-move clock: after a move halfMoveClock is 0 if the moved piece
\* is a pawn or a piece was captured, otherwise the previous value plus one;
\* halfMoveClock stays >= 0, fullMoveNumber stays >= 1 and never decreases.
C16_Clocks ==
  [][LET m == moveHistory'[Len(moveHistory')]
         other == opponent(m.piece.color)
         captured == pieceCount(board', other) < pieceCount(board, other)
     IN /\ gameState'.halfMoveClock =
             IF m.piece.type = "pawn" \/ captured THEN 0
             ELSE gameState.halfMoveClock + 1
        /\ gameState.halfMoveClock >= 0
        /\ gameState'.halfMoveClock >= 0
        /\ gameState.fullMoveNumber >= 1
        /\ gameState'.fullMoveNumber >= gameState.fullMoveNumber]_vars

\* A piece other than a pawn has just captured, right after a move that was
\* neither a pawn move nor a capture, and the clock is back at 0.
C16_Witness ==
  /\ Len(moveHistory) >= 2
  /\ lastMove.piece.type # "pawn"
  /\ lastMove.capturedPiece # null
  /\ moveHistory[Len(moveHistory) - 1].piece.type # "pawn"
  /\ moveHistory[Len(moveHistory) - 1].capturedPiece = null
  /\ gameState.halfMoveClock = 0

\* The board b with an identity for each of its pieces.
tracked(b) ==
  [r \in Rows |-> [c \in Rows |->
     IF b[r][c] = null THEN null
     ELSE [type |-> b[r][c].type, color |-> b[r][c].color,
           hasMoved |-> b[r][c].hasMoved, id |-> 8 * r + c + 1]]]

\* The game state gs as an object with an identity.
trackedState(gs) ==
  [whiteCanCastleKingside |-> gs.whiteCanCastleKingside,
   whiteCanCastleQueenside |-> gs.whiteCanCastleQueenside,
   blackCanCastleKingside |-> gs.blackCanCastleKingside,
   blackCanCastleQueenside |-> gs.blackCanCastleQueenside,
   enPassantTarget |-> gs.enPassantTarget,
   halfMoveClock |-> gs.halfMoveClock,
   fullMoveNumber |-> gs.fullMoveNumber,
   id |-> 0]

\* The board tb without the identities.
plain(tb) ==
  [r \in Rows |-> [c \in Rows |->
     IF tb[r][c] = null THEN null
     ELSE [type |-> tb[r][c].type, color |-> tb[r][c].color,
           hasMoved |-> tb[r][c].hasMoved]]]

\* The object of the caller's board tb that the object o is, or null when
\* o is none of them (tracked numbers the objects by their cells).
callerObject(tb, o) ==
  LET k == o.id - 1 IN
  IF k \in 0..63 THEN tb[k \div 8][k % 8] ELSE null

\* No object on the board nb is an object of the caller's board tb.
sharesNothing(tb, nb) ==
  \A p \in Squares :
    nb[p.row][p.col] # null => callerObject(tb, nb[p.row][p.col]) = null

\* The caller's board tb reads as before once a call has produced the board
\* nb: an object of tb that is also on nb has the fields it had.
unchangedBy(tb, nb) ==
  \A p \in Squares :
    nb[p.row][p.col] # null =>
      callerObject(tb, nb[p.row][p.col]) \in {null, nb[p.row][p.col]}

\* The caller's state ts reads as before once a call has produced the state
\* ns.
stateUnchangedBy(ts, ns) == ns.id = ts.id => ns = ts

\* The calls of movePiece on the current position: every pseudo-legal move
\* with no promotion choice, as the legality filter of getPossibleMoves
\* simulates it, and every pawn move onto the far rank with each choice, as
\* <<from, to, promotionPiece>>.
calls ==
  UNION {{<<p, to, "none">> :
            to \in Range(pseudoLegalMoves(board, p, gameState))}
         \cup {<<p, to, kind>> :
                 to \in {t \in Range(pseudoLegalMoves(board, p, gameState)) :
                           isPawnPromotion(board[p.row][p.col], t)},
                 kind \in PromotionKinds} :
         p \in {q \in Squares : board[q.row][q.col] # null}}

\* C17 - No in-place mutation: movePiece, called by the component or by the
\* legality filter of getPossibleMoves, leaves the caller's board and game
\* state as they were, and the board it returns shares no piece object with
\* the input board.
C17_NoInPlaceMutation ==
  \A caller \in {tracked(board)}, callerState \in {trackedState(gameState)} :
    \A call \in calls :
      \A result \in {movePiece(caller, call[1], call[2], callerState, call[3])} :
        /\ unchangedBy(caller, result.newBoard)
        /\ unchangedBy(caller, cleanBoard(result.newBoard))
        /\ stateUnchangedBy(callerState, result.newGameState)
        /\ sharesNothing(caller, result.newBoard)
        /\ plain(result.newBoard) =
             movePiece(board, call[1], call[2], gameState, call[3]).newBoard

\* A pawn that has never moved may advance, and a pawn may promote: the
\* call sets hasMoved, or the kind, on the object it moves.
C17_Witness ==
  /\ \E call \in calls :
       LET from == call[1]
           result == movePiece(tracked(board), from, call[2],
                               trackedState(gameState), call[3])
       IN /\ board[from.row][from.col].type = "pawn"
          /\ ~board[from.row][from.col].hasMoved
          /\ result.newBoard[call[2].row][call[2].col].hasMoved
          /\ result.newGameState.halfMoveClock # gameState.halfMoveClock
  /\ \E call \in calls :
       /\ call[3] = "knight"
       /\ movePiece(tracked(board), call[1], call[2],
                    trackedState(gameState), call[3])
            .newBoard[call[2].row][call[2].col].type = "knight"

\* The calls of movePiece from the empty squares of the current position
\* whose destination some branch of movePiece looks for: the en-passant
\* target, two columns or two rows from the origin, a far rank (with and
\* without a promotion choice) and the corners, as
\* <<from, to, promotionPiece>>.
emptyCalls ==
  UNION {{<<from, to, "none">> :
            to \in {t \in Squares :
                      \/ t = gameState.enPassantTarget
                      \/ t.row = from.row /\ Abs(t.col - from.col) = 2
                      \/ t.col = from.col /\ Abs(t.row - from.row) = 2
                      \/ t.row \in {0, 7} /\ t.col \in {0, 7, from.col}}}
         \cup {<<from, Pos(r, from.col), "knight">> : r \in {0, 7}} :
         from \in {q \in Squares : board[q.row][q.col] = null}}

\* C18 - Empty-origin no-op: movePiece with no piece on `from` returns a
\* board equal cell by cell to the input board, a game state equal field by
\* field to the input state, and capturedPiece null.
C18_EmptyOriginNoOp ==
  \A call \in emptyCalls :
    \A result \in {movePiece(board, call[1], call[2], gameState, call[3])} :
      /\ \A sq \in Squares :
           result.newBoard[sq.row][sq.col] = board[sq.row][sq.col]
      /\ \A field \in DOMAIN gameState :
           result.newGameState[field] = gameState[field]
      /\ DOMAIN result.newGameState = DOMAIN gameState
      /\ result.capturedPiece = null

\* An en-passant target is set and the clock is running; movePiece from an
\* empty square onto a piece returns the state as it is and captures
\* nothing.
C18_Witness ==
  /\ gameState.enPassantTarget # nullPos
  /\ gameState.fullMoveNumber > 1
  /\ \E call \in emptyCalls :
       /\ board[call[2].row][call[2].col] # null
       /\ movePiece(board, call[1], call[2], gameState, call[3]) =
            [newBoard |-> board, newGameState |-> gameState,
             capturedPiece |-> null]

\* That color has no king on the board.
kingless(color) ==
  ~\E p \in Squares : /\ board[p.row][p.col].type = "king"
                       /\ board[p.row][p.col].color = color

\* C19 - Degenerate queries: getPossibleMoves on an empty square returns the
\* empty list; when a color has no king on the board, isKingInCheck and
\* isCheckmate are false for that color and the legality filter removes none
\* of that color's pseudo-legal moves.
C19_DegenerateQueries ==
  /\ \A p \in Squares :
       board[p.row][p.col] = null =>
         getPossibleMoves(board, p, gameState) = <<>>
  /\ \A color \in Colors :
       kingless(color) =>
         /\ ~isKingInCheck(board, color, gameState)
         /\ ~isCheckmate(board, color, gameState)
         /\ \A p \in Squares :
              board[p.row][p.col].color = color =>
                getPossibleMoves(board, p, gameState) =
                  pseudoLegalMoves(board, p, gameState)

\* White's king has been captured, white is to move and has moves.
C19_Witness ==
  /\ kingless("white")
  /\ currentPlayer = "white"
  /\ legalDestinations("white") # {}

\* C20 - Capture marker: the notation of a move contains "x" exactly when
\* the move captured a piece, that is when the resulting board holds one
\* opposing piece fewer than the board before the move, for ordinary and
\* en-passant captures alike.
C20_CaptureMarker ==
  [][LET m == moveHistory'[Len(moveHistory')]
         other == opponent(m.piece.color)
     IN ("x" \in Range(m.notation)) <=>
          (pieceCount(board', other) = pieceCount(board, other) - 1)]_vars

\* C21 - Pawn-capture notation: the notation of a pawn's capture of the
\* piece on its destination is the origin file letter once, "x" and the
\* destination square, also when a second pawn of the same color could
\* capture on the same square.
C21_PawnCaptureNotation ==
  (/\ moveHistory # <<>>
   /\ lastMove.piece.type = "pawn"
   /\ lastMove.capturedPiece # null) =>
    /\ Len(lastMove.notation) >= 4
    /\ SubSeq(lastMove.notation, 1, 4) =
         <<files[lastMove.from.col + 1], "x",
           files[lastMove.to.col + 1], ranks[lastMove.to.row + 1]>>

\* The other pieces of the kind and color of `piece` that getPossibleMoves
\* lets reach `to` on the board b under the game state gs.
candidates(b, piece, from, to, gs) ==
  {p \in Squares \ {from} :
     /\ b[p.row][p.col].type = piece.type
     /\ b[p.row][p.col].color = piece.color
     /\ to \in Range(getPossibleMoves(b, p, gs))}

\* The prefix the column and row rule asks for.
prefixFor(others, from) ==
  IF others = {} THEN <<>>
  ELSE IF \A p \in others : p.col # from.col THEN <<files[from.col + 1]>>
  ELSE IF \A p \in others : p.row # from.row THEN <<ranks[from.row + 1]>>
  ELSE <<files[from.col + 1], ranks[from.row + 1]>>

\* The disambiguation prefix of a recorded move that is no castling: what
\* its notation holds between the letter of the mover (the piece letter, or
\* the file letter of a capturing pawn) and the capture mark or destination.
prefixOf(m) ==
  LET lead == IF m.piece.type = "pawn" /\ m.capturedPiece = null THEN 0 ELSE 1
      tail == 2 + (IF m.capturedPiece # null THEN 1 ELSE 0)
                + (IF m.promotion # "none" THEN 2 ELSE 0)
                + (IF m.notation # moveText(m.notation) THEN 1 ELSE 0)
  IN SubSeq(m.notation, lead + 1, Len(m.notation) - tail)

\* The recorded move is a king move of two columns.
isCastling(m) == m.piece.type = "king" /\ Abs(m.from.col - m.to.col) = 2

\* C22 - Disambiguation: with C the other pieces of the mover's kind and
\* color that can legally reach the destination on the position before the
\* move, the notation has no prefix when C is empty, the origin file letter
\* when no member of C is on the origin column, else the origin rank digit
\* when none is on the origin row, else file letter and rank digit.
C22_Disambiguation ==
  [][LET m == moveHistory'[Len(moveHistory')] IN
     ~isCastling(m) =>
       prefixOf(m) =
         prefixFor(candidates(board, m.piece, m.from, m.to, gameState),
                   m.from)]_vars

C24_CastlingNotation ==
  /\ (moveHistory # <<>> /\ isCastling(lastMove)) =>
       lastMove.notation =
         IF lastMove.to.col > lastMove.from.col THEN <<"O", "-", "O">>
         ELSE <<"O", "-", "O", "-", "O">>
  /\ \A color \in Colors :
       \A from \in {findKing(board, color)} \ {nullPos} :
         \A to \in {t \in Squares : Abs(t.col - from.col) = 2} :
           \A promotionPiece \in {"none", "queen"} :
             generateNotation(board, board[from.row][from.col], from, to,
                              board[to.row][to.col], board, gameState,
                              promotionPiece) =
               IF to.col > from.col THEN <<"O", "-", "O">>
               ELSE <<"O", "-", "O", "-", "O">>

\* Both sides have castled queenside; the last two moves read "O-O-O".
C24_Witness ==
  /\ Len(moveHistory) >= 2
  /\ isCastling(lastMove)
  /\ lastMove.to.col < lastMove.from.col
  /\ lastMove.notation = <<"O", "-", "O", "-", "O">>
  /\ moveHistory[Len(moveHistory) - 1].notation = lastMove.notation

\* The squares of the board b holding a king of that color.
kingsOf(b, color) ==
  {p \in Squares : b[p.row][p.col].type = "king" /\ b[p.row][p.col].color = color}

\* C25 - King survival: in every position reached from the initial position
\* by moves taken from getPossibleMoves and applied with movePiece, each
\* color has exactly one king on the board.
C25_KingSurvival ==
  \A color \in Colors : Cardinality(kingsOf(board, color)) = 1

\* C26 - Castling flags agree with the board: when a castling right is set,
\* the king of that color stands on column 4 of its home row and has not
\* moved, and a rook of that color that has not moved stands on the corner
\* of that side.
C26_FlagsAgreeWithBoard ==
  \A color \in Colors, kingside \in BOOLEAN :
    right(gameState, color, kingside) =>
      LET king == board[homeRow(color)][4]
          rook == board[homeRow(color)][IF kingside THEN 7 ELSE 0]
      IN /\ king.type = "king" /\ king.color = color /\ ~king.hasMoved
         /\ rook.type = "rook" /\ rook.color = color /\ ~rook.hasMoved

\* C27 - En-passant target is well formed: when enPassantTarget is set it is
\* an empty square on row 5 after a white move or row 2 after a black move,
\* the square one row further in the mover's direction holds a pawn of the
\* player who just moved, and the pawn's starting square behind the target
\* is empty.
C27_EnPassantTargetWellFormed ==
  gameState.enPassantTarget # nullPos =>
    LET target == gameState.enPassantTarget
        mover == opponent(currentPlayer)
        direction == pawnDirection(mover)
    IN /\ moveHistory # <<>>
       /\ lastMove.piece.color = mover
       /\ target \in Squares
       /\ target.row = IF mover = "white" THEN 5 ELSE 2
       /\ board[target.row][target.col] = null
       /\ board[target.row + direction][target.col].type = "pawn"
       /\ board[target.row + direction][target.col].color = mover
       /\ board[target.row - direction][target.col] = null

\* Black has just advanced a pawn two squares next to a white pawn: the
\* target is on row 2 with the black pawn on row 3 below it.
C27_Witness ==
  /\ gameState.enPassantTarget # nullPos
  /\ gameState.enPassantTarget.row = 2
  /\ currentPlayer = "white"
  /\ board[3][gameState.enPassantTarget.col] =
       [type |-> "pawn", color |-> "black", hasMoved |-> TRUE]
  /\ \E c \in Rows : /\ Abs(c - gameState.enPassantTarget.col) = 1
                      /\ board[3][c].type = "pawn"
                      /\ board[3][c].color = "white"

\* No pawn of either color stands on row 0 or row 7 of the board b.
noPawnOnBackRank(b) ==
  \A r \in {0, 7}, c \in Rows : b[r][c].type # "pawn"

\* C28 - No pawn on a back rank: in every position reached by legal moves
\* applied with movePiece, with any promotion choice among queen, rook,
\* bishop, knight or none, no pawn stands on row 0 or row 7.
C28_NoPawnOnBackRank ==
  /\ noPawnOnBackRank(board)
  /\ \A m \in promotionMoves :
       \A promotionPiece \in PromotionKinds \cup {"none"} :
         noPawnOnBackRank(movePiece(board, m[1], m[2], gameState,
                                    promotionPiece).newBoard)

\* A black pawn has just promoted to a bishop on row 7 and no pawn stands
\* on a back rank.
C28_Witness ==
  /\ moveHistory # <<>>
  /\ lastMove.piece = [type |-> "pawn", color |-> "black", hasMoved |-> TRUE]
  /\ lastMove.to.row = 7
  /\ lastMove.promotion = "bishop"
  /\ board[7][lastMove.to.col].type = "bishop"
  /\ noPawnOnBackRank(board)

\* C29 - hasMoved tracks displacement: every piece whose hasMoved flag is
\* unset stands on the square it occupied in the initial position, so the
\* square holds what the initial board holds there; every piece that was
\* relocated, the rook relocated by castling included, has hasMoved set.
C29_HasMovedTracksDisplacement ==
  \A p \in Squares :
    (board[p.row][p.col] # null /\ ~board[p.row][p.col].hasMoved) =>
      board[p.row][p.col] = initialBoard[p.row][p.col]

\* C30 - Frame and material conservation: a legal move changes only the
\* squares `from` and `to`, the victim's square for an en-passant capture,
\* and the rook's corner and landing square for castling; the mover's piece
\* count is unchanged and the opponent's drops by exactly one on a capture,
\* ordinary or en passant, and is unchanged otherwise.
C30_FrameAndMaterial ==
  [][LET m == moveHistory'[Len(moveHistory')]
         mover == m.piece.color
         other == opponent(mover)
         enPassant == /\ m.piece.type = "pawn"
                      /\ m.from.col # m.to.col
                      /\ board[m.to.row][m.to.col] = null
         capture == board[m.to.row][m.to.col].color = other \/ enPassant
         kingside == m.to.col > m.from.col
         touched ==
           {m.from, m.to}
           \cup (IF enPassant THEN {Pos(m.from.row, m.to.col)} ELSE {})
           \cup (IF isCastling(m)
                 THEN {Pos(m.from.row, IF kingside THEN 7 ELSE 0),
                       Pos(m.from.row, IF kingside THEN 5 ELSE 3)}
                 ELSE {})
     IN /\ \A sq \in Squares \ touched :
             board'[sq.row][sq.col] = board[sq.row][sq.col]
        /\ pieceCount(board', mover) = pieceCount(board, mover)
        /\ pieceCount(board', other) =
             pieceCount(board, other) - (IF capture THEN 1 ELSE 0)]_vars

\* The first capture of the game was an en-passant capture: the mover has
\* all 16 pieces, the opponent 15, and nothing stood on the destination.
C30_Witness ==
  /\ moveHistory # <<>>
  /\ lastMove.piece.type = "pawn"
  /\ lastMove.from.col # lastMove.to.col
  /\ lastMove.capturedPiece = null
  /\ pieceCount(board, lastMove.piece.color) = 16
  /\ pieceCount(board, opponent(lastMove.piece.color)) = 15

\* C31 - Destinations are well formed: every position getPossibleMoves
\* returns lies in rows 0..7 and columns 0..7, differs from the origin and
\* is empty or holds a piece of the other color.
C31_DestinationsWellFormed ==
  \A p \in Squares :
    \A to \in Range(getPossibleMoves(board, p, gameState)) :
      /\ to.row \in Rows
      /\ to.col \in Rows
      /\ to # p
      /\ \/ board[to.row][to.col] = null
         \/ board[to.row][to.col].color = opponent(board[p.row][p.col].color)

\* The player to move has a capture and a castling move to choose from, and
\* a knight with a piece of its own color a knight's step away.
C31_Witness ==
  /\ \E p \in Squares :
       /\ board[p.row][p.col].color = currentPlayer
       /\ \E to \in Range(getPossibleMoves(board, p, gameState)) :
            board[to.row][to.col].color = opponent(currentPlayer)
  /\ castlingMoves(board, findKing(board, currentPlayer), gameState) # {}
  /\ \E p \in Squares :
       /\ board[p.row][p.col].type = "knight"
       /\ board[p.row][p.col].color = currentPlayer
       /\ Len(getPossibleMoves(board, p, gameState)) <
            Len(stepMovesOntoAny(board, p, knightOffsets))

\* C32 - Pawn advances: a forward pawn move is offered only onto an empty
\* square; the two-square advance only from the starting row (6 for white,
\* 1 for black) with the square between and the destination empty; a
\* diagonal move only onto a square held by the other color or onto the
\* empty enPassantTarget square.
C32_PawnAdvances ==
  \A p \in Squares :
    board[p.row][p.col].type = "pawn" =>
      LET color == board[p.row][p.col].color
          direction == IF color = "white" THEN -1 ELSE 1
          startingRow == IF color = "white" THEN 6 ELSE 1
      IN \A to \in Range(getPawnMoves(board, p, gameState))
                  \cup Range(getPossibleMoves(board, p, gameState)) :
           IF to.col = p.col
           THEN /\ board[to.row][to.col] = null
                /\ \/ to.row = p.row + direction
                   \/ /\ to.row = p.row + 2 * direction
                      /\ p.row = startingRow
                      /\ board[p.row + direction][p.col] = null
           ELSE /\ Abs(to.col - p.col) = 1
                /\ to.row = p.row + direction
                /\ \/ board[to.row][to.col].color = opponent(color)
                   \/ /\ board[to.row][to.col] = null
                      /\ to = gameState.enPassantTarget

\* A white pawn off its starting row has two empty squares ahead, a pawn of
\* the player to move has the en-passant square among its moves, and a
\* pawn has an ordinary capture among its moves.
C32_Witness ==
  /\ \E p \in Squares :
       LET piece == board[p.row][p.col] IN
       /\ piece.type = "pawn" /\ piece.color = "white" /\ p.row \in 2..5
       /\ board[p.row - 1][p.col] = null /\ board[p.row - 2][p.col] = null
       /\ Len(getPawnMoves(board, p, gameState)) >= 1
  /\ \E p \in Squares :
       /\ board[p.row][p.col].type = "pawn"
       /\ board[p.row][p.col].color = currentPlayer
       /\ gameState.enPassantTarget \in Range(getPawnMoves(board, p, gameState))
  /\ \E p \in Squares :
       /\ board[p.row][p.col].type = "pawn"
       /\ \E to \in Range(getPawnMoves(board, p, gameState)) :
            board[to.row][to.col] # null

\* The step is a reset: the game is back at its start.
isReset ==
  /\ board' = initialBoard
  /\ gameState' = initialGameState
  /\ currentPlayer' = "white"
  /\ moveHistory' = <<>>

\* The number of moves of that color in the history h.
movesBy(h, color) == Cardinality({i \in DOMAIN h : h[i].piece.color = color})

\* C33 - Turn and history bookkeeping: over any clicks and promotion
\* choices since the last reset, moveHistory grows by exactly one entry per
\* applied move and is otherwise left as it is, currentPlayer is white iff
\* moveHistory has even length, every applied move moved a piece of the
\* player whose turn it was, and fullMoveNumber is 1 plus the number of
\* moves black has made.
C33_Bookkeeping ==
  [][/\ \/ isReset
        \/ /\ moveHistory' = moveHistory
           /\ board' = board
           /\ gameState' = gameState
           /\ currentPlayer' = currentPlayer
        \/ /\ Len(moveHistory') = Len(moveHistory) + 1
           /\ SubSeq(moveHistory', 1, Len(moveHistory)) = moveHistory
           /\ board' # board
           /\ LET m == moveHistory'[Len(moveHistory')] IN
              /\ m.piece.color = currentPlayer
              /\ m.piece = board[m.from.row][m.from.col]
     /\ (currentPlayer' = "white") <=> (Len(moveHistory') % 2 = 0)
     /\ gameState'.fullMoveNumber = 1 + movesBy(moveHistory', "black")]_vars

\* Ten moves have been applied, the last one by a promotion choice of
\* black: white is to move in move 6.
C33_Witness ==
  /\ Len(moveHistory) = 10
  /\ lastMove.promotion # "none"
  /\ lastMove.piece.color = "black"
  /\ currentPlayer = "white"
  /\ gameState.fullMoveNumber = 6
  /\ ~showPromotionModal

\* C34 - Only legal moves are committed: every call of movePiece made by
\* handleSquareClick or handlePromotion, in any interleaving of square
\* clicks and promotion choices, has a piece of currentPlayer on `from` and
\* a `to` that is in getPossibleMoves(board, from, gameState) for the board
\* and state current at the call.
C34_OnlyLegalMovesCommitted ==
  [][Len(moveHistory') = Len(moveHistory) + 1 =>
       LET m == moveHistory'[Len(moveHistory')] IN
       /\ board[m.from.row][m.from.col].color = currentPlayer
       /\ m.to \in Range(getPossibleMoves(board, m.from, gameState))]_vars

\* C35 - Game-over gating: once isCheckmate or isStalemate holds for
\* currentPlayer on the current board and state, no square click changes
\* board, gameState, currentPlayer, selectedPiece or moveHistory; they stay
\* as they are until resetGame is invoked.
C35_GameOverGating ==
  [][(isCheckmate(board, currentPlayer, gameState) \/ isStalemate(board, currentPlayer, gameState)) =>
       \/ UNCHANGED <<board, gameState, currentPlayer, selectedPiece, moveHistory>>
       \/ /\ isReset
          /\ selectedPiece' = nullPos]_vars

\* The game has been played to its end by clicks: white is mated, nothing
\* is selected.
C35_Witness ==
  /\ isCheckmate(board, currentPlayer, gameState)
  /\ currentPlayer = "white"
  /\ Len(moveHistory) = 4
  /\ selectedPiece = nullPos

\* C36 - Pending promotion: when the selected pawn is sent to its far rank,
\* movePiece is not called until a promotion kind is chosen; while the
\* choice is pending board, gameState, currentPlayer and moveHistory are
\* unchanged; the choice applies that pawn move exactly once with the chosen
\* kind, closes the promotion dialog and passes the turn.
C36_PendingPromotion ==
  [][/\ (~showPromotionModal /\ showPromotionModal') =>
          /\ UNCHANGED <<board, gameState, currentPlayer, moveHistory>>
          /\ board[selectedPiece'.row][selectedPiece'.col].type = "pawn"
          /\ promotionPosition' \in Range(getPossibleMoves(board, selectedPiece', gameState))
     /\ showPromotionModal =>
          \/ UNCHANGED <<board, gameState, currentPlayer, moveHistory>>
          \/ isReset
          \/ /\ Len(moveHistory') = Len(moveHistory) + 1
             /\ SubSeq(moveHistory', 1, Len(moveHistory)) = moveHistory
             /\ LET m == moveHistory'[Len(moveHistory')] IN
                /\ m.piece.type = "pawn"
                /\ m.piece.color = currentPlayer
                /\ m.to = promotionPosition
                /\ m.to \in Range(getPossibleMoves(board, m.from, gameState))
                /\ m.promotion \in PromotionKinds
                /\ board'[m.to.row][m.to.col].type = m.promotion
             /\ ~showPromotionModal'
             /\ currentPlayer' # currentPlayer]_vars

\* C37 - Reset restores the initial component state from any state: after
\* resetGame the board equals initialBoard, all four castling flags are
\* true, enPassantTarget is null, halfMoveClock is 0, fullMoveNumber is 1,
\* white is to move, moveHistory, selection and highlighted moves are empty,
\* and no promotion is pending (promotion dialog closed, promotionPosition
\* null).  A step that empties the history is a reset.
C37_ResetRestoresInitialState ==
  [][(moveHistory # <<>> /\ moveHistory' = <<>>) =>
       /\ board' = initialBoard
       /\ gameState'.whiteCanCastleKingside /\ gameState'.whiteCanCastleQueenside
       /\ gameState'.blackCanCastleKingside /\ gameState'.blackCanCastleQueenside
       /\ gameState'.enPassantTarget = nullPos
       /\ gameState'.halfMoveClock = 0
       /\ gameState'.fullMoveNumber = 1
       /\ currentPlayer' = "white"
       /\ selectedPiece' = nullPos
       /\ possibleMoves' = <<>>
       /\ ~showPromotionModal'
       /\ promotionPosition' = nullPos]_vars

====
